---- MODULE Spec2Model ----
(***************************************************************************)
(* Model of asana_progress.py (AsanaProgressTracker): credential           *)
(* resolution, connectivity check, project enumeration, per-project        *)
(* progress calculation and the per-workspace report tables.               *)
(*                                                                         *)
(* Python values are modelled as follows.                                  *)
(*   dict      a function whose DOMAIN is the set of keys that are present *)
(*   str       a TLA+ string (Len, SubSeq and \o act on its characters)    *)
(*   None      the value None below                                        *)
(*   float     percentages are kept as exact rationals <<num, den>>; for   *)
(*             task counts up to 40 the float c / t * 100 orders and       *)
(*             compares exactly as the rational does                       *)
(*   generator what the asana client returns for a collection: a record    *)
(*             [items, fails]; consuming it yields items in order and then *)
(*             either stops or raises (fails = TRUE)                       *)
(***************************************************************************)
EXTENDS Integers, Sequences, FiniteSets, TLC

VARIABLES
    pc,               \* position of the program
    arg,              \* the api_key argument given to __init__
    keychain,         \* the keyring entry ("asana_cli", "api_key")
    entered,          \* what getpass returned, None before the prompt
    api_key,          \* the token held in memory
    calls,            \* external calls and console notices, in order
    exit_code,        \* the exit status of the process: 0 unless sys.exit(1) or a crash
    enum,             \* what the API returned during get_all_projects
    projects,         \* result of get_all_projects
    responses,        \* what the API returned for each processed project
    project_progress, \* the records built by run()
    tables,           \* the rendered workspace tables
    summary           \* the summary panels printed

vars == <<pc, arg, keychain, entered, api_key, calls, exit_code, enum,
          projects, responses, project_progress, tables, summary>>

None == "None"

\* dict.get(key, default)
Get(d, k, default) == IF k \in DOMAIN d THEN d[k] ELSE default

Gen(items, fails) == [items |-> items, fails |-> fails]

\* Sequences over S of length at most n.
SeqUpTo(S, n) == UNION {[1..k -> S] : k \in 0..n}

Range(s) == {s[i] : i \in DOMAIN s}

-----------------------------------------------------------------------------
(* str helpers *)

Char(s, i) == SubSeq(s, i, i)

UpperAlpha == "ABCDEFGHIJKLMNOPQRSTUVWXYZ"
LowerAlpha == "abcdefghijklmnopqrstuvwxyz"

LowerChar(c) ==
    IF \E i \in 1..Len(UpperAlpha) : Char(UpperAlpha, i) = c
    THEN Char(LowerAlpha, CHOOSE i \in 1..Len(UpperAlpha) : Char(UpperAlpha, i) = c)
    ELSE c

RECURSIVE LowerFrom(_, _)
LowerFrom(s, i) ==
    IF i > Len(s) THEN "" ELSE LowerChar(Char(s, i)) \o LowerFrom(s, i + 1)

\* str.lower()
Lower(s) == LowerFrom(s, 1)

\* `pat in text`
Contains(text, pat) ==
    \E i \in 1..(Len(text) - Len(pat) + 1) : SubSeq(text, i, i + Len(pat) - 1) = pat

Whitespace == {" ", "\t", "\n"}

RECURSIVE LStrip(_)
LStrip(s) ==
    IF Len(s) > 0 /\ Char(s, 1) \in Whitespace
    THEN LStrip(SubSeq(s, 2, Len(s)))
    ELSE s

RECURSIVE RStrip(_)
RStrip(s) ==
    IF Len(s) > 0 /\ Char(s, Len(s)) \in Whitespace
    THEN RStrip(SubSeq(s, 1, Len(s) - 1))
    ELSE s

\* str.strip()
Strip(s) == RStrip(LStrip(s))

\* Code points of the characters that occur in timestamps.
CharOrd(c) ==
    CASE c = "-" -> 45
      [] c = "." -> 46
      [] c = "0" -> 48 [] c = "1" -> 49 [] c = "2" -> 50 [] c = "3" -> 51
      [] c = "4" -> 52 [] c = "5" -> 53 [] c = "6" -> 54 [] c = "7" -> 55
      [] c = "8" -> 56 [] c = "9" -> 57
      [] c = ":" -> 58
      [] c = "T" -> 84
      [] c = "Z" -> 90

RECURSIVE StrLessFrom(_, _, _)
StrLessFrom(a, b, i) ==
    IF i > Len(a) THEN i <= Len(b)
    ELSE IF i > Len(b) THEN FALSE
    ELSE IF CharOrd(Char(a, i)) < CharOrd(Char(b, i)) THEN TRUE
    ELSE IF CharOrd(Char(a, i)) > CharOrd(Char(b, i)) THEN FALSE
    ELSE StrLessFrom(a, b, i + 1)

\* a < b on str: code points at the first difference, a proper prefix is less
StrLess(a, b) == StrLessFrom(a, b, 1)

DigitChars == "0123456789"

RECURSIVE IntToStr(_)
\* str(n) for n >= 0
IntToStr(n) ==
    IF n < 10 THEN Char(DigitChars, n + 1)
    ELSE IntToStr(n \div 10) \o Char(DigitChars, (n % 10) + 1)

-----------------------------------------------------------------------------
(* get_project_progress *)

\* percentage = (completed_tasks / total_tasks * 100) if total_tasks > 0 else 0
Percentage(completed_tasks, total_tasks) ==
    IF total_tasks > 0 THEN <<completed_tasks * 100, total_tasks>> ELSE <<0, 1>>

PctLess(p, q) == p[1] * q[2] < q[1] * p[2]

TaskCompletedDefaultTrue(task) == Get(task, "completed", TRUE)

\* task.get('completed', False)
TaskCompleted(task) == Get(task, "completed", FALSE)

RECURSIVE CountCompleted(_)
\* sum(1 for task in tasks if task.get('completed', False))
CountCompleted(tasks) ==
    IF tasks = <<>> THEN 0
    ELSE (IF TaskCompleted(Head(tasks)) THEN 1 ELSE 0) + CountCompleted(Tail(tasks))

CreatedAt(x) == Get(x, "created_at", "")

RECURSIVE MaxFrom(_, _, _)
MaxFrom(items, i, best) ==
    IF i > Len(items) THEN best
    ELSE IF StrLess(CreatedAt(best), CreatedAt(items[i]))
         THEN MaxFrom(items, i + 1, items[i])
         ELSE MaxFrom(items, i + 1, best)

LatestStatusFirst(items) == items[1]

\* max(statuses, key=lambda x: x.get('created_at', '')): the first item whose
\* key no later item exceeds
LatestStatus(items) == MaxFrom(items, 2, items[1])

\* the color is None branch: infer the label from the text
StatusFromText(latest_status) ==
    LET text == Lower(Get(latest_status, "text", ""))
    IN  IF Contains(text, "hold") \/ Contains(text, "pause") \/ Contains(text, "wait")
        THEN "On hold"
        ELSE IF Contains(text, "risk") \/ Contains(text, "delay") \/ Contains(text, "issue")
        THEN "At risk"
        ELSE IF Contains(text, "off track") \/ Contains(text, "problem") \/ Contains(text, "red")
        THEN "Off track"
        ELSE IF Contains(text, "track") \/ Contains(text, "progress") \/ Contains(text, "good")
        THEN "On track"
        ELSE IF Contains(text, "complete") \/ Contains(text, "done")
        THEN "Completed"
        ELSE "No status"

StatusFromLatest(latest_status) ==
    LET color == Get(latest_status, "color", None)
    IN  IF color = "green" THEN "On track"
        ELSE IF color = "blue" THEN "On hold"
        ELSE IF color = "yellow" THEN "At risk"
        ELSE IF color = "red" THEN "Off track"
        ELSE IF color = "complete" THEN "Completed"
        ELSE IF color = None THEN StatusFromText(latest_status)
        ELSE "on hold"

\* the except branch of the status lookup
FallbackStatus(project) ==
    IF Get(project, "completed", FALSE) THEN "completed"
    ELSE IF Get(project, "archived", FALSE) THEN "Archived"
    ELSE "Active"

GeneratorTruthAsList(statuses) == Len(statuses.items) > 0

\* `if statuses:` where statuses is the generator find_by_project returned: a
\* generator object is true whatever it is going to yield
GeneratorTruth(statuses) == TRUE

\* the try/except around the status lookup: max() consumes the generator, so
\* a failed fetch raises there, and max() of nothing raises ValueError
StatusText(project, statuses) ==
    IF GeneratorTruth(statuses)
    THEN IF statuses.fails \/ Len(statuses.items) = 0
         THEN FallbackStatus(project)
         ELSE StatusFromLatest(LatestStatus(statuses.items))
    ELSE "No status"

DegradedRecordProjectColor(project) ==
    [name |-> Get(project, "name", "Unknown"),
     workspace |-> Get(project, "workspace_name", "Unknown"),
     total_tasks |-> 0,
     completed_tasks |-> 0,
     percentage |-> <<0, 1>>,
     completed |-> Get(project, "completed", FALSE),
     archived |-> Get(project, "archived", FALSE),
     status |-> FallbackStatus(project),
     color |-> Get(project, "color", "light-blue")]

\* the record of the outer except branch
DegradedRecord(project) ==
    [name |-> Get(project, "name", "Unknown"),
     workspace |-> Get(project, "workspace_name", "Unknown"),
     total_tasks |-> 0,
     completed_tasks |-> 0,
     percentage |-> <<0, 1>>,
     completed |-> Get(project, "completed", FALSE),
     archived |-> Get(project, "archived", FALSE),
     status |-> "Error",
     color |-> "red"]

\* tasksGen is what tasks.find_by_project returned, statuses what
\* project_statuses.find_by_project returned
get_project_progress(project, tasksGen, statuses) ==
    IF "gid" \notin DOMAIN project \/ tasksGen.fails
    THEN DegradedRecord(project)
    ELSE LET tasks == tasksGen.items
             total_tasks == Len(tasks)
             completed_tasks == CountCompleted(tasks)
         IN  [name |-> Get(project, "name", "Unnamed Project"),
              workspace |-> Get(project, "workspace_name", "Unknown"),
              total_tasks |-> total_tasks,
              completed_tasks |-> completed_tasks,
              percentage |-> Percentage(completed_tasks, total_tasks),
              completed |-> Get(project, "completed", FALSE),
              archived |-> Get(project, "archived", FALSE),
              status |-> StatusText(project, statuses),
              color |-> Get(project, "color", "light-blue")]

\* whether get_project_progress gets as far as asking for the statuses
StatusesRequested(project, tasksGen) ==
    "gid" \in DOMAIN project /\ ~tasksGen.fails

NotRequested == Gen(<<>>, FALSE)

\* enum before get_all_projects has run
NoEnumeration == [workspaces |-> Gen(<<>>, FALSE), projects |-> <<>>]

-----------------------------------------------------------------------------
(* get_all_projects *)

\* project['workspace_name'] = workspace_name
Tagged(project, workspace_name) ==
    [k \in DOMAIN project \cup {"workspace_name"} |->
        IF k = "workspace_name" THEN workspace_name ELSE project[k]]

WorkspaceName(workspace) == Get(workspace, "name", "Unknown Workspace")

TaggedAll(workspace, items) ==
    [j \in 1..Len(items) |-> Tagged(items[j], WorkspaceName(workspace))]

RECURSIVE CollectFrom(_, _, _)
\* all_projects after the workspaces from i on, when nothing raises
CollectFrom(workspaces, projGens, i) ==
    IF i > Len(workspaces) THEN <<>>
    ELSE TaggedAll(workspaces[i], projGens[i].items)
         \o CollectFrom(workspaces, projGens, i + 1)

RECURSIVE CollectSkippingFrom(_, _, _)
CollectSkippingFrom(workspaces, projGens, i) ==
    IF i > Len(workspaces) THEN <<>>
    ELSE (IF projGens[i].fails THEN <<>>
          ELSE TaggedAll(workspaces[i], projGens[i].items))
         \o CollectSkippingFrom(workspaces, projGens, i + 1)

\* whether an exception reaches the except clause of get_all_projects: the
\* workspace generator or a project generator raises while it is consumed
EnumerationRaises(wsGen, projGens) ==
    wsGen.fails \/ \E i \in 1..Len(wsGen.items) : projGens[i].fails

get_all_projects_per_workspace(wsGen, projGens) ==
    CollectSkippingFrom(wsGen.items, projGens, 1)

\* wsGen is what workspaces.find_all returned, projGens[i] what
\* projects.find_all returned for the i-th workspace
get_all_projects(wsGen, projGens) ==
    IF EnumerationRaises(wsGen, projGens)
    THEN <<>>
    ELSE CollectFrom(wsGen.items, projGens, 1)

\* the number of projects.find_all calls made: the loop stops at the first
\* workspace whose project generator raises
ProjectListCalls(wsGen, projGens) ==
    IF \E i \in 1..Len(wsGen.items) : projGens[i].fails
    THEN CHOOSE i \in 1..Len(wsGen.items) :
            projGens[i].fails /\ \A j \in 1..(i - 1) : ~projGens[j].fails
    ELSE Len(wsGen.items)

-----------------------------------------------------------------------------
(* display_progress_bars and its helpers *)

RECURSIVE Repeat(_, _)
\* glyph * n
Repeat(glyph, n) == IF n <= 0 THEN "" ELSE glyph \o Repeat(glyph, n - 1)

\* the bar of _create_progress_bar, "#" for the filled and "-" for the empty
\* glyph; the percentage label that follows the bar is not modelled
create_progress_bar(percentage) ==
    LET bar_length == 20
        filled_length == (bar_length * percentage[1]) \div (100 * percentage[2])
    IN  Repeat("#", filled_length) \o Repeat("-", bar_length - filled_length)

get_status_style(status) ==
    LET status_lower == Lower(status)
    IN  IF status_lower = "on track" THEN "green"
        ELSE IF status_lower = "on hold" THEN "blue"
        ELSE IF status_lower = "at risk" THEN "yellow"
        ELSE IF status_lower = "off track" THEN "red"
        ELSE IF status_lower = "completed" THEN "bold green"
        ELSE IF Contains(status_lower, "archived") THEN "dim"
        ELSE "white"

\* project['name'][:33] + "..." if len(project['name']) > 35 else project['name']
NameCell(name) ==
    IF Len(name) > 35 THEN SubSeq(name, 1, 33) \o "..." ELSE name

\* one table.add_row
TableRow(project) ==
    [name |-> NameCell(project.name),
     bar |-> create_progress_bar(project.percentage),
     tasks |-> IntToStr(project.completed_tasks) \o "/" \o IntToStr(project.total_tasks),
     status |-> project.status,
     style |-> get_status_style(project.status)]

GoesBeforeTiesToo(x, y) == ~PctLess(x.percentage, y.percentage)

\* sorted(..., key=percentage, reverse=True): x, later in the input than y, is
\* placed before y only when its key is strictly greater
GoesBefore(x, y) == PctLess(y.percentage, x.percentage)

RECURSIVE InsertSorted(_, _)
InsertSorted(sorted, x) ==
    IF sorted = <<>> THEN <<x>>
    ELSE IF GoesBefore(x, Head(sorted)) THEN <<x>> \o sorted
    ELSE <<Head(sorted)>> \o InsertSorted(Tail(sorted), x)

RECURSIVE SortFrom(_, _, _)
SortFrom(ps, i, acc) ==
    IF i > Len(ps) THEN acc ELSE SortFrom(ps, i + 1, InsertSorted(acc, ps[i]))

\* sorted(projects, key=lambda x: x['percentage'], reverse=True)
SortedProjects(ps) == SortFrom(ps, 1, <<>>)

RECURSIVE GroupKeysFrom(_, _, _)
GroupKeysFrom(ps, i, keys) ==
    IF i > Len(ps) THEN keys
    ELSE IF ps[i].workspace \in Range(keys)
         THEN GroupKeysFrom(ps, i + 1, keys)
         ELSE GroupKeysFrom(ps, i + 1, Append(keys, ps[i].workspace))

\* the keys of the workspaces dict, in insertion order
GroupKeys(ps) == GroupKeysFrom(ps, 1, <<>>)

IsIn(p, w) == p.workspace = w

\* workspaces[workspace_name]
Group(ps, w) == SelectSeq(ps, LAMBDA p : IsIn(p, w))

\* what _display_workspace_table prints for one workspace
WorkspaceTable(workspace_name, ps) ==
    LET sorted_projects == SortedProjects(ps)
    IN  [title |-> workspace_name,
         rows |-> [i \in 1..Len(sorted_projects) |-> TableRow(sorted_projects[i])]]

RenderTables(ps) ==
    LET keys == GroupKeys(ps)
    IN  [i \in 1..Len(keys) |-> WorkspaceTable(keys[i], Group(ps, keys[i]))]

RECURSIVE SumOf(_, _)
SumOf(ps, field) ==
    IF ps = <<>> THEN 0 ELSE Head(ps)[field] + SumOf(Tail(ps), field)

\* what _display_summary prints
Summary(ps) ==
    LET total_tasks == SumOf(ps, "total_tasks")
        completed_tasks == SumOf(ps, "completed_tasks")
    IN  [total_projects |-> Len(ps),
         completed_projects |-> Len(SelectSeq(ps, LAMBDA p : p.completed)),
         active_projects |-> Len(SelectSeq(ps, LAMBDA p : ~p.completed /\ ~p.archived)),
         archived_projects |-> Len(SelectSeq(ps, LAMBDA p : p.archived)),
         total_tasks |-> total_tasks,
         completed_tasks |-> completed_tasks,
         overall_percentage |-> Percentage(completed_tasks, total_tasks)]

-----------------------------------------------------------------------------
(* Bounds and the values the environment may supply *)

MaxWorkspaces == 2
MaxProjects == 2
MaxTasks == 3
MaxStatuses == 2
MaxRender == 4
MaxYieldedBeforeFailure == 1

Min(a, b) == IF a < b THEN a ELSE b

ArgTokens == {None, "", "token-from-argument"}
KeychainEntries == {None, "", "token-from-keychain"}
TypedEntries == {"", "  ", " token-typed "}

\* the workspaces of the account, in the order the API lists them; the third
\* shares its display name with the first, the fourth has none
WorkspaceList ==
    <<[gid |-> "w1", name |-> "Acme"],
      [gid |-> "w2", name |-> "Beta"],
      [gid |-> "w3", name |-> "Acme"],
      [gid |-> "w4"]>>

WorkspaceGens ==
    {Gen(SubSeq(WorkspaceList, 1, n), f) :
        n \in 0..Min(MaxWorkspaces, Len(WorkspaceList)), f \in BOOLEAN}

\* the projects of the account, in the order the API lists them, workspace
\* after workspace
AccountProjects ==
    <<[gid |-> "p1", name |-> "Website", completed |-> FALSE, archived |-> FALSE,
       color |-> "dark-green"],
      [gid |-> "p2", name |-> "Launch", completed |-> TRUE, archived |-> FALSE],
      [gid |-> "p3", name |-> "Legacy", completed |-> FALSE, archived |-> TRUE,
       color |-> "dark-red"],
      [gid |-> "p4", name |-> "Hiring", completed |-> FALSE, archived |-> FALSE]>>

\* Generators over S that yield at most n items; one that raises has yielded
\* at most MaxYieldedBeforeFailure items by then.
GensUpTo(S, n) ==
    {Gen(items, FALSE) : items \in SeqUpTo(S, n)}
    \cup {Gen(items, TRUE) : items \in SeqUpTo(S, Min(n, MaxYieldedBeforeFailure))}

Tasks == {[completed |-> TRUE, name |-> "t"], [completed |-> FALSE, name |-> "t"],
          [name |-> "t"]}

RunTaskGens ==
    {Gen(<<>>, FALSE), Gen(<<[completed |-> TRUE], [name |-> "t"]>>, FALSE),
     Gen(<<[completed |-> TRUE]>>, TRUE)}

RunStatusGens ==
    {Gen(<<>>, FALSE), Gen(<<[color |-> "green", created_at |-> "2023-01-01"]>>, FALSE)}

-----------------------------------------------------------------------------
(* __init__ and _get_api_key *)

IsBlankUnstripped(s) == s = ""

\* not api_key.strip()
IsBlank(s) == Strip(s) = ""

\* if stored_key:
StoredKeyFound(stored_key) == stored_key # None /\ stored_key # ""

Init ==
    /\ pc = "init"
    /\ arg \in ArgTokens
    /\ keychain \in KeychainEntries
    /\ entered = None
    /\ api_key = None
    /\ calls = <<>>
    /\ exit_code = 0
    /\ enum = NoEnumeration
    /\ projects = <<>>
    /\ responses = <<>>
    /\ project_progress = <<>>
    /\ tables = <<>>
    /\ summary = <<>>

\* __init__ called with an api_key: _get_api_key is not called
InitWithKey ==
    /\ pc = "init"
    /\ arg # None
    /\ api_key' = arg
    /\ pc' = "connect"
    /\ UNCHANGED <<arg, keychain, entered, calls, exit_code, enum, projects,
                   responses, project_progress, tables, summary>>

\* __init__ called without an api_key: the whole of _get_api_key. readFails:
\* keyring.get_password raises (nothing catches it); storeFails:
\* keyring.set_password raises
GetApiKey ==
    /\ pc = "init"
    /\ arg = None
    /\ \E readFails \in BOOLEAN, typed \in TypedEntries, storeFails \in BOOLEAN :
        IF readFails
        THEN /\ calls' = calls \o <<"keyring.get_password">>
             /\ pc' = "crashed"
             /\ exit_code' = 1
             /\ UNCHANGED <<keychain, entered, api_key>>
        ELSE IF StoredKeyFound(keychain)
        THEN /\ calls' = calls \o <<"keyring.get_password">>
             /\ api_key' = keychain
             /\ pc' = "connect"
             /\ UNCHANGED <<keychain, entered, exit_code>>
        ELSE IF IsBlank(typed)
        THEN /\ calls' = calls \o <<"keyring.get_password", "getpass",
                                    "print: API key cannot be empty">>
             /\ entered' = typed
             /\ pc' = "exited"
             /\ exit_code' = 1
             /\ UNCHANGED <<keychain, api_key>>
        ELSE /\ calls' = calls \o <<"keyring.get_password", "getpass",
                                    "keyring.set_password">>
                               \o (IF storeFails
                                   THEN <<"print: Could not store API key in keychain">>
                                   ELSE <<>>)
             /\ entered' = typed
             /\ keychain' = IF storeFails THEN keychain ELSE typed
             /\ api_key' = typed
             /\ pc' = "connect"
             /\ UNCHANGED exit_code
    /\ UNCHANGED <<arg, enum, projects, responses, project_progress, tables, summary>>

ConnectErrorIgnored ==
    /\ pc' = "ready"
    /\ exit_code' = exit_code

\* except Exception: print the error, sys.exit(1)
ConnectError ==
    /\ pc' = "exited"
    /\ exit_code' = 1

\* asana.Client.access_token(api_key) and the users.me() test call
Connect ==
    /\ pc = "connect"
    /\ \E ok \in BOOLEAN :
        IF ok
        THEN /\ calls' = calls \o <<"users.me">>
             /\ pc' = "ready"
             /\ UNCHANGED exit_code
        ELSE /\ calls' = calls \o <<"users.me", "print: Error connecting to Asana API">>
             /\ ConnectError
    /\ UNCHANGED <<arg, keychain, entered, api_key, enum, projects, responses,
                   project_progress, tables, summary>>

-----------------------------------------------------------------------------
(* run *)

NoProjectsNever(ps) == FALSE

\* if not projects:
NoProjects(ps) == Len(ps) = 0

RECURSIVE TotalItems(_, _)
TotalItems(gens, i) ==
    IF i > Len(gens) THEN 0 ELSE Len(gens[i].items) + TotalItems(gens, i + 1)

RECURSIVE SizeUpTo(_, _)
SizeUpTo(shape, i) == IF i < 1 THEN 0 ELSE shape[i].size + SizeUpTo(shape, i - 1)

\* The project generators the API can hand out for the listed workspaces:
\* workspace i holds the next shape[i].size projects of the account, at most
\* MaxProjects in all, and its listing raises when shape[i].raises, after at
\* most MaxYieldedBeforeFailure projects; nothing follows the first failure,
\* since no later request is made.
ProjectGenSeqs(wsGen) ==
    LET n == Len(wsGen.items)
        most == Min(MaxProjects, Len(AccountProjects))
        Shapes ==
            {shape \in [1..n -> [size : 0..most, raises : BOOLEAN]] :
                /\ SizeUpTo(shape, n) <= most
                /\ \A i \in 1..n :
                    /\ shape[i].raises => shape[i].size <= MaxYieldedBeforeFailure
                    /\ (\E j \in 1..(i - 1) : shape[j].raises)
                           => shape[i].size = 0 /\ ~shape[i].raises}
    IN  {[i \in 1..n |->
            Gen(SubSeq(AccountProjects, SizeUpTo(shape, i - 1) + 1, SizeUpTo(shape, i)),
                shape[i].raises)] : shape \in Shapes}

\* run() up to the `if not projects` test: the call of get_all_projects
RunFetch ==
    /\ pc = "ready"
    /\ \E wsGen \in WorkspaceGens :
       \E projGens \in ProjectGenSeqs(wsGen) :
        LET found == get_all_projects(wsGen, projGens)
            raised == EnumerationRaises(wsGen, projGens)
        IN  /\ enum' = [workspaces |-> wsGen, projects |-> projGens]
            /\ projects' = found
            /\ calls' = calls \o <<"workspaces.find_all">>
                        \o [i \in 1..ProjectListCalls(wsGen, projGens) |-> "projects.find_all"]
                        \o (IF raised THEN <<"print: Error fetching projects">> ELSE <<>>)
                        \o (IF NoProjects(found)
                            THEN <<"print: No projects found or error occurred.">>
                            ELSE <<>>)
            /\ IF NoProjects(found)
               THEN pc' = "done" /\ exit_code' = 0
               ELSE /\ pc' = IF Len(found) = 0 THEN "display" ELSE "loop"
                    /\ UNCHANGED exit_code
    /\ UNCHANGED <<arg, keychain, entered, api_key, responses, project_progress,
                   tables, summary>>

\* one iteration of `for project in projects`: get_project_progress and append
ProgressStep(TaskGens, StatusGens) ==
    /\ pc = "loop"
    /\ Len(project_progress) < Len(projects)
    /\ LET project == projects[Len(project_progress) + 1]
       IN  \E tasksGen \in TaskGens, statusGen \in StatusGens :
            LET asked == StatusesRequested(project, tasksGen)
                statuses == IF asked THEN statusGen ELSE NotRequested
            IN  /\ responses' = Append(responses, [tasks |-> tasksGen, statuses |-> statuses])
                /\ project_progress' =
                       Append(project_progress, get_project_progress(project, tasksGen, statuses))
                /\ calls' = calls
                       \o (IF "gid" \in DOMAIN project THEN <<"tasks.find_by_project">> ELSE <<>>)
                       \o (IF asked
                           THEN <<"project_statuses.find_by_project">>
                           ELSE <<"print: Error calculating progress for project">>)
    /\ pc' = IF Len(project_progress) + 1 = Len(projects) THEN "display" ELSE "loop"
    /\ UNCHANGED <<arg, keychain, entered, api_key, exit_code, enum, projects,
                   tables, summary>>

RunProgress == ProgressStep(RunTaskGens, RunStatusGens)

\* display_progress_bars(project_progress), after which run() and main() return
Display ==
    /\ pc = "display"
    /\ IF Len(project_progress) = 0
       THEN /\ calls' = calls \o <<"display_progress_bars",
                                   "print: No projects found to display.">>
            /\ UNCHANGED <<tables, summary>>
       ELSE /\ tables' = RenderTables(project_progress)
            /\ summary' = <<Summary(project_progress)>>
            /\ calls' = calls \o <<"display_progress_bars">>
                        \o [i \in 1..Len(GroupKeys(project_progress)) |-> "_display_workspace_table"]
                        \o <<"_display_summary">>
    /\ pc' = "done"
    /\ exit_code' = 0
    /\ UNCHANGED <<arg, keychain, entered, api_key, enum, projects, responses,
                   project_progress>>

Next ==
    \/ InitWithKey
    \/ GetApiKey
    \/ Connect
    \/ RunFetch
    \/ RunProgress
    \/ Display

Spec == Init /\ [][Next]_vars

-----------------------------------------------------------------------------
(* get_project_progress on its own: one project, any task and status lists *)

CalcProjects ==
    {[gid |-> "p1", name |-> "Website", workspace_name |-> "Acme",
      completed |-> FALSE, archived |-> FALSE, color |-> "dark-green"],
     [gid |-> "p2", name |-> "Launch", workspace_name |-> "Acme",
      completed |-> TRUE, archived |-> TRUE, color |-> "dark-red"],
     [gid |-> "p3", name |-> "Legacy", workspace_name |-> "Beta",
      completed |-> FALSE, archived |-> TRUE],
     [gid |-> "p4"]}

CalcTaskGens == GensUpTo(Tasks, MaxTasks)

StatusUpdates ==
    {[color |-> "green", created_at |-> "2023-01-01"],
     [color |-> "red", created_at |-> "2023-06-01"],
     [color |-> "yellow", created_at |-> "2023-06-01"],
     [color |-> "blue"],
     [color |-> "complete", created_at |-> "2023-06-01T10:00:00.000Z"],
     [text |-> "Waiting on the vendor", created_at |-> "2023-03-15"],
     [color |-> "purple", text |-> "all good", created_at |-> "9"]}

CalcStatusGens == GensUpTo(StatusUpdates, MaxStatuses)

InitProgress ==
    /\ pc = "loop"
    /\ arg = "token-from-argument"
    /\ keychain = None
    /\ entered = None
    /\ api_key = "token-from-argument"
    /\ calls = <<"users.me">>
    /\ exit_code = 0
    /\ enum = NoEnumeration
    /\ projects \in {<<p>> : p \in CalcProjects}
    /\ responses = <<>>
    /\ project_progress = <<>>
    /\ tables = <<>>
    /\ summary = <<>>

CalcProgress == ProgressStep(CalcTaskGens, CalcStatusGens)

NextProgress == CalcProgress

SpecProgress == InitProgress /\ [][NextProgress]_vars

-----------------------------------------------------------------------------
(* display_progress_bars on its own: any list of progress records *)

ProgressRecord(name, workspace, completed_tasks, total_tasks, status) ==
    [name |-> name,
     workspace |-> workspace,
     total_tasks |-> total_tasks,
     completed_tasks |-> completed_tasks,
     percentage |-> Percentage(completed_tasks, total_tasks),
     completed |-> status = "Completed",
     archived |-> status = "Archived",
     status |-> status,
     color |-> "light-blue"]

RenderRecords ==
    {ProgressRecord("Website", "Acme", 1, 10, "At risk"),
     ProgressRecord("Quarterly marketing campaign review", "Acme", 9, 10, "On track"),
     ProgressRecord("Quarterly marketing campaign reviews", "Acme", 9, 10, "Off track"),
     ProgressRecord("Launch", "Acme", 5, 10, "On hold"),
     ProgressRecord("Customer onboarding redesign and migration plan", "Beta", 2, 2,
                    "Completed"),
     ProgressRecord("Legacy", "Beta", 0, 0, "Archived")}

InitRender ==
    /\ pc = "display"
    /\ arg = "token-from-argument"
    /\ keychain = None
    /\ entered = None
    /\ api_key = "token-from-argument"
    /\ calls = <<"users.me">>
    /\ exit_code = 0
    /\ enum = NoEnumeration
    /\ projects = <<>>
    /\ responses = <<>>
    /\ project_progress \in SeqUpTo(RenderRecords, MaxRender)
    /\ tables = <<>>
    /\ summary = <<>>

NextRender == Display

SpecRender == InitRender /\ [][NextRender]_vars

-----------------------------------------------------------------------------
(* Properties *)

Called(op) == op \in Range(calls)
TimesCalled(op) == Cardinality({i \in DOMAIN calls : calls[i] = op})

ListOps == {"workspaces.find_all", "projects.find_all", "tasks.find_by_project",
            "project_statuses.find_by_project"}
RenderOps == {"display_progress_bars", "_display_workspace_table", "_display_summary"}

ConnectFailed == Called("print: Error connecting to Asana API")
PersistFailed == Called("print: Could not store API key in keychain")
Rendered == Called("display_progress_bars")

\* the tasks the API yielded for the i-th processed project, and the number
\* of them that carry completed = true
TasksOf(i) == responses[i].tasks.items
CompletedIn(tasks) ==
    Cardinality({j \in DOMAIN tasks : "completed" \in DOMAIN tasks[j] /\ tasks[j].completed})

TaskListingFailed(i) == responses[i].tasks.fails

\* C1: a failure while reading one project's tasks never aborts the run: the
\* i-th record is the i-th enumerated project's, the record of a project
\* whose task listing failed is the degraded one (zero counts, percentage 0,
\* status "Error", color "red"), the loop can always go on to the next
\* project, and a run that enumerated projects ends rendered, with one record
\* per project.
C1_TaskFailureNeverAborts ==
    /\ Len(project_progress) = Len(responses)
    /\ Len(project_progress) <= Len(projects)
    /\ \A i \in DOMAIN project_progress :
        LET r == project_progress[i]
        IN  /\ r.name = projects[i].name
            /\ r.workspace = projects[i].workspace_name
            /\ TaskListingFailed(i) =>
                /\ r.total_tasks = 0
                /\ r.completed_tasks = 0
                /\ r.percentage[1] = 0
                /\ r.status = "Error"
                /\ r.color = "red"
    /\ pc = "loop" => exit_code = 0 /\ ENABLED RunProgress
    /\ pc = "display" => exit_code = 0 /\ Len(project_progress) = Len(projects)
    /\ pc \in {"exited", "crashed"} => project_progress = <<>>
    /\ (pc = "done" /\ Len(projects) > 0) =>
        /\ Len(project_progress) = Len(projects)
        /\ Rendered
        /\ Len(tables) > 0
        /\ exit_code = 0

C1_Witness ==
    /\ pc = "done"
    /\ Len(project_progress) = 2
    /\ TaskListingFailed(1)
    /\ ~TaskListingFailed(2)
    /\ project_progress[1].status = "Error"
    /\ project_progress[2].total_tasks = 2
    /\ Rendered

\* C2: every record of get_project_progress, normal or degraded, has
\* completed_tasks <= total_tasks, 0 <= percentage <= 100 and percentage = 0
\* when total_tasks = 0; on the normal path total_tasks is the number of
\* tasks and completed_tasks the number of tasks that carry completed = true,
\* so a task without the field counts as not completed.
C2_RecordInvariants ==
    \A i \in DOMAIN project_progress :
        LET r == project_progress[i]
        IN  /\ r.completed_tasks <= r.total_tasks
            /\ r.percentage[2] > 0
            /\ 0 <= r.percentage[1]
            /\ r.percentage[1] <= 100 * r.percentage[2]
            /\ r.total_tasks = 0 => r.percentage[1] = 0
            /\ ~TaskListingFailed(i) =>
                /\ r.total_tasks = Len(TasksOf(i))
                /\ r.completed_tasks = CompletedIn(TasksOf(i))

C2_Witness ==
    /\ Len(project_progress) = 1
    /\ ~TaskListingFailed(1)
    /\ TasksOf(1) = <<[completed |-> TRUE, name |-> "t"], [name |-> "t"],
                      [completed |-> FALSE, name |-> "t"]>>
    /\ project_progress[1].completed_tasks = 1
    /\ project_progress[1].total_tasks = 3

StatusesAsked(i) == "gid" \in DOMAIN projects[i] /\ ~TaskListingFailed(i)
StatusesOf(i) == responses[i].statuses

\* C3: when the status-update list is empty or fetching it failed, the status
\* label is "completed" for a completed project, else "Archived" for an
\* archived one, else "Active", and the record keeps the task counts and the
\* percentage computed from the project's tasks.
C3_StatusFallback ==
    \A i \in DOMAIN project_progress :
        LET r == project_progress[i]
            p == projects[i]
            n == Len(TasksOf(i))
            c == CompletedIn(TasksOf(i))
        IN  (StatusesAsked(i) /\ (StatusesOf(i).fails \/ Len(StatusesOf(i).items) = 0)) =>
                /\ r.status = IF "completed" \in DOMAIN p /\ p.completed THEN "completed"
                              ELSE IF "archived" \in DOMAIN p /\ p.archived THEN "Archived"
                              ELSE "Active"
                /\ r.total_tasks = n
                /\ r.completed_tasks = c
                /\ IF n = 0 THEN r.percentage[1] = 0
                   ELSE r.percentage[1] * n = 100 * c * r.percentage[2]

C3_Witness ==
    /\ Len(project_progress) = 1
    /\ StatusesAsked(1)
    /\ StatusesOf(1) = Gen(<<>>, FALSE)
    /\ projects[1].gid = "p2"
    /\ project_progress[1].status = "completed"
    /\ project_progress[1].total_tasks = 2
    /\ project_progress[1].completed_tasks = 1

ColorLabels ==
    [green |-> "On track", blue |-> "On hold", yellow |-> "At risk",
     red |-> "Off track", complete |-> "Completed"]

TimestampOf(e) == IF "created_at" \in DOMAIN e THEN e.created_at ELSE ""

\* the first entry of items whose created_at no entry exceeds
FirstLatest(items) ==
    CHOOSE j \in DOMAIN items :
        /\ \A k \in DOMAIN items : ~StrLess(TimestampOf(items[j]), TimestampOf(items[k]))
        /\ \A k \in 1..(j - 1) :
            \E m \in DOMAIN items : StrLess(TimestampOf(items[k]), TimestampOf(items[m]))

GreenJanuary == [color |-> "green", created_at |-> "2023-01-01"]
RedJune == [color |-> "red", created_at |-> "2023-06-01"]

\* C8: with a non-empty status-update list the label comes from an entry
\* whose created_at string is lexicographically maximal (a missing created_at
\* is the empty string), the first such entry, and green, blue, yellow, red
\* and complete map to "On track", "On hold", "At risk", "Off track" and
\* "Completed"; [green 2023-01-01, red 2023-06-01] gives "Off track" in
\* either order.
C8_LatestStatusColor ==
    \A i \in DOMAIN project_progress :
        LET r == project_progress[i]
            items == StatusesOf(i).items
        IN  (StatusesAsked(i) /\ ~StatusesOf(i).fails /\ Len(items) > 0) =>
                /\ LET latest == items[FirstLatest(items)]
                   IN  \A color \in DOMAIN ColorLabels :
                        ("color" \in DOMAIN latest /\ latest.color = color)
                            => r.status = ColorLabels[color]
                /\ items \in {<<GreenJanuary, RedJune>>, <<RedJune, GreenJanuary>>}
                       => r.status = "Off track"

C8_Witness ==
    /\ Len(project_progress) = 1
    /\ StatusesAsked(1)
    /\ StatusesOf(1) = Gen(<<RedJune, GreenJanuary>>, FALSE)
    /\ project_progress[1].status = "Off track"

Enumerated == Called("workspaces.find_all")

\* a list operation raised during the enumeration
EnumerationFailed ==
    /\ Enumerated
    /\ \/ enum.workspaces.fails
       \/ \E i \in DOMAIN enum.projects : enum.projects[i].fails

\* the projects the API yielded for the i-th workspace, tagged with its name
YieldedBy(i) ==
    LET w == enum.workspaces.items[i]
        wname == IF "name" \in DOMAIN w THEN w.name ELSE "Unknown Workspace"
    IN  {[k \in DOMAIN q \cup {"workspace_name"} |->
            IF k = "workspace_name" THEN wname ELSE q[k]] :
         q \in Range(enum.projects[i].items)}

CredentialOps == {"keyring.get_password", "getpass", "keyring.set_password"}
HoldsToken(entry) == entry # None /\ entry # ""

C5_State ==
    /\ \A op \in CredentialOps : TimesCalled(op) <= 1
    /\ arg # None =>
        /\ \A op \in CredentialOps : ~Called(op)
        /\ entered = None
        /\ pc # "init" => api_key = arg
    /\ \A i \in DOMAIN calls :
        /\ calls[i] = "getpass" =>
            \E j \in 1..(i - 1) : calls[j] = "keyring.get_password"
        /\ calls[i] = "keyring.set_password" =>
            /\ \E j \in 1..(i - 1) : calls[j] = "getpass"
            /\ entered # None
            /\ Strip(entered) # ""
            /\ api_key = entered
    /\ (entered # None /\ Strip(entered) = "") =>
        /\ pc = "exited"
        /\ exit_code = 1
        /\ ~Called("keyring.set_password")
        /\ ~Called("users.me")
        /\ \A op \in ListOps : ~Called(op)

C5_Step ==
    /\ keychain' # keychain => (Called("keyring.set_password"))'
    /\ (pc = "init" /\ arg = None /\ HoldsToken(keychain)) =>
        /\ ~(Called("getpass"))'
        /\ ~(Called("keyring.set_password"))'
        /\ keychain' = keychain
        /\ pc' = "connect" => api_key' = keychain
    /\ pc # "init" =>
        \A op \in CredentialOps : (TimesCalled(op))' = TimesCalled(op)

C6_ConnectivityGate ==
    /\ TimesCalled("users.me") <= 1
    /\ Called("users.me") => api_key # None
    /\ \A i \in DOMAIN calls :
        calls[i] \in ListOps \cup RenderOps =>
            \E j \in 1..(i - 1) : calls[j] = "users.me"
    /\ pc \in {"ready", "loop", "display", "done"} =>
        TimesCalled("users.me") = 1 /\ ~ConnectFailed
    /\ ConnectFailed =>
        /\ pc = "exited"
        /\ exit_code = 1
        /\ \A op \in ListOps \cup RenderOps : ~Called(op)
        /\ tables = <<>>
        /\ summary = <<>>
    /\ PersistFailed =>
        /\ api_key = entered
        /\ pc # "crashed"
        /\ pc = "exited" => ConnectFailed
        /\ pc = "connect" => ENABLED Connect

C6_Witness ==
    /\ PersistFailed
    /\ pc = "done"
    /\ TimesCalled("users.me") = 1
    /\ Rendered
    /\ Len(tables) > 0

\* C7: when the enumeration yields no project, run() prints its "no
\* projects" notice and stops there: no tasks or statuses are asked for,
\* nothing is rendered, and the process ends normally with exit code 0.
C7_NoProjectsStopsBeforeRendering ==
    (Enumerated /\ Len(projects) = 0) =>
        /\ pc = "done"
        /\ exit_code = 0
        /\ Called("print: No projects found or error occurred.")
        /\ ~Called("tasks.find_by_project")
        /\ ~Called("project_statuses.find_by_project")
        /\ \A op \in RenderOps : ~Called(op)
        /\ tables = <<>>
        /\ summary = <<>>

C7_Witness ==
    /\ Enumerated
    /\ ~EnumerationFailed
    /\ Len(enum.workspaces.items) = 2
    /\ projects = <<>>
    /\ pc = "done"
    /\ exit_code = 0

\* the records of workspace w, as positions in project_progress
Members(w) == {i \in DOMAIN project_progress : project_progress[i].workspace = w}

FirstOf(w) == CHOOSE i \in Members(w) : \A j \in Members(w) : i <= j

\* the row of its table that the i-th record belongs in: after the records
\* of its workspace with a greater percentage and after the earlier ones
\* with the same percentage
RowOf(i) ==
    LET q == project_progress[i].percentage
    IN  1 + Cardinality({j \in Members(project_progress[i].workspace) :
                LET pj == project_progress[j].percentage
                IN  \/ pj[1] * q[2] > q[1] * pj[2]
                    \/ pj[1] * q[2] = q[1] * pj[2] /\ j < i})

TableOf(w) == CHOOSE t \in DOMAIN tables : tables[t].title = w

\* C9 as claimed: the name cell is never longer than 35 characters: a name of
\* at most 35 characters is shown unchanged, a longer one is cut so that the
\* text and its "..." together take at most 35 characters.
C9_NameCellAtMost35 ==
    (pc = "done" /\ Len(project_progress) > 0) =>
        \A i \in DOMAIN project_progress :
            LET name == project_progress[i].name
                cell == tables[TableOf(project_progress[i].workspace)].rows[RowOf(i)].name
            IN  /\ Len(cell) <= 35
                /\ Len(name) <= 35 => cell = name
                /\ Len(name) > 35 =>
                    /\ SubSeq(cell, Len(cell) - 2, Len(cell)) = "..."
                    /\ SubSeq(cell, 1, Len(cell) - 3) = SubSeq(name, 1, Len(cell) - 3)

\* C10: one table per workspace name, in order of first appearance; the
\* rows of a table are its workspace's records by percentage descending,
\* records of equal percentage in input order; every record is in exactly
\* one row; [10, 90, 90, 50] renders as [90, 90, 50, 10], the first 90 first.
C10_GroupedStableDescending ==
    (pc = "done" /\ Len(project_progress) > 0) =>
        /\ Len(tables) = Cardinality({project_progress[i].workspace : i \in DOMAIN project_progress})
        /\ \A t \in DOMAIN tables : Members(tables[t].title) # {}
        /\ \A t, u \in DOMAIN tables :
            t < u => FirstOf(tables[t].title) < FirstOf(tables[u].title)
        /\ \A t \in DOMAIN tables :
            /\ Len(tables[t].rows) = Cardinality(Members(tables[t].title))
            /\ \A i \in Members(tables[t].title) :
                tables[t].rows[RowOf(i)] = TableRow(project_progress[i])
        /\ [i \in DOMAIN project_progress |-> project_progress[i].percentage]
               = <<Percentage(1, 10), Percentage(9, 10), Percentage(9, 10), Percentage(5, 10)>>
           /\ Len(tables) = 1
           => /\ [k \in 1..4 |-> tables[1].rows[k].tasks] = <<"9/10", "9/10", "5/10", "1/10">>
              /\ tables[1].rows[1] = TableRow(project_progress[2])
              /\ tables[1].rows[2] = TableRow(project_progress[3])

C10_Witness ==
    /\ pc = "done"
    /\ Len(project_progress) = 4
    /\ Len(tables) = 1
    /\ [i \in 1..4 |-> project_progress[i].name]
           = <<"Website", "Quarterly marketing campaign reviews",
               "Quarterly marketing campaign review", "Launch">>
    /\ [k \in 1..4 |-> tables[1].rows[k].name]
           = <<"Quarterly marketing campaign revi...",
               "Quarterly marketing campaign review", "Launch", "Website">>

====
